---- MODULE Spec2Model ----
(***************************************************************************)
(* The HTTP/1.1 client request encoder of async-h1                         *)
(* (src/client/encode.rs): Encoder::new, finalize_headers, compute_head    *)
(* and the poll_read state machine Start -> Head -> Body -> End.           *)
(*                                                                         *)
(* Bytes are one-character strings, byte strings are sequences of them.    *)
(* An Option is a sequence of length at most one: <<>> is None, <<v>> is   *)
(* Some(v).                                                                *)
(***************************************************************************)
EXTENDS Integers, Sequences, FiniteSets

VARIABLES
    request,      \* Encoder.request: method, url, headers, len, body
    state,        \* Encoder.state, the variant's tag: Start, Head, Body, End
    cursor,       \* payload of Head: [buf, pos]; kept as history after Head
    encoder,      \* payload of Body: the BodyEncoder, [left]
    n_written,    \* payload of Body: body bytes returned so far
    req_len,      \* payload of Body: Option of the declared length
    bufs,         \* the buffer lengths the caller passes to poll_read
    out,          \* every byte poll_read has written to the caller, in order
    first_body,   \* index in out of the first body byte, 0 while there is none
    result,       \* what the last poll_read call returned
    framer_ret,   \* what the BodyEncoder returned in the last call, if polled
    transitions   \* the assignments to Encoder.state made by the last call

vars == <<request, state, cursor, encoder, n_written, req_len, bufs, out,
          first_body, result, framer_ret, transitions>>

(***************************************************************************)
(* Bounds of the model.                                                    *)
(***************************************************************************)
MaxBuf == 3      \* Spec: the caller's buffers have 0..MaxBuf bytes
MaxBody == 2     \* declared lengths and body streams have 0..MaxBody bytes
HeadBuf == 64    \* HeadSpec: the caller's buffers have HeadBuf bytes

(***************************************************************************)
(* Byte strings.                                                           *)
(***************************************************************************)
HOST == <<"h", "o", "s", "t">>
CONTENT_LENGTH == <<"c", "o", "n", "t", "e", "n", "t", "-", "l", "e", "n", "g", "t", "h">>
TRANSFER_ENCODING == <<"t", "r", "a", "n", "s", "f", "e", "r", "-", "e", "n", "c", "o", "d", "i", "n", "g">>
PROXY_CONNECTION == <<"p", "r", "o", "x", "y", "-", "c", "o", "n", "n", "e", "c", "t", "i", "o", "n">>
CHUNKED == <<"c", "h", "u", "n", "k", "e", "d">>
KEEP_ALIVE == <<"k", "e", "e", "p", "-", "a", "l", "i", "v", "e">>
HTTP_1_1_CRLF == <<" ", "H", "T", "T", "P", "/", "1", ".", "1", "\r", "\n">>
CRLF == <<"\r", "\n">>
COLON_SP == <<":", " ">>
GET == <<"G", "E", "T">>
CONNECT == <<"C", "O", "N", "N", "E", "C", "T">>

\* The printable ASCII characters in code order, from the space (32) on; the
\* double quote, the backslash and the backtick, which no string of the
\* model holds, are written by name.
Printable ==
    <<" ", "!", "QUOTE", "#", "$", "%", "&", "'", "(", ")", "*", "+", ",", "-",
      ".", "/", "0", "1", "2", "3", "4", "5", "6", "7", "8", "9", ":", ";",
      "<", "=", ">", "?", "@", "A", "B", "C", "D", "E", "F", "G", "H", "I",
      "J", "K", "L", "M", "N", "O", "P", "Q", "R", "S", "T", "U", "V", "W",
      "X", "Y", "Z", "[", "BACKSLASH", "]", "^", "_", "BACKTICK", "a", "b", "c", "d", "e",
      "f", "g", "h", "i", "j", "k", "l", "m", "n", "o", "p", "q", "r", "s",
      "t", "u", "v", "w", "x", "y", "z", "{", "|", "}", "~">>

\* The byte value of a character.
Ord(c) == 31 + (CHOOSE i \in 1..Len(Printable) : Printable[i] = c)

Min(a, b) == IF a <= b THEN a ELSE b

\* Ord for str: byte-wise lexicographic order, a < b.
StrLess(a, b) ==
    \E k \in 1..(Min(Len(a), Len(b)) + 1) :
        /\ \A i \in 1..(k - 1) : a[i] = b[i]
        /\ \/ k > Len(a) /\ k <= Len(b)
           \/ k <= Len(a) /\ k <= Len(b) /\ Ord(a[k]) < Ord(b[k])

StrLeq(a, b) == a = b \/ StrLess(a, b)

\* usize / u16 to_string: the decimal digits.
RECURSIVE to_string(_)
to_string(n) ==
    IF n < 10 THEN <<Printable[17 + n]>>
    ELSE to_string(n \div 10) \o <<Printable[17 + (n % 10)]>>

\* Option
None == <<>>
Some(v) == <<v>>
is_none(o) == o = <<>>
unwrap(o) == o[1]

(***************************************************************************)
(* The Url accessors the encoder calls.                                    *)
(***************************************************************************)
host_str(url) == url.host

port(url) == url.port

\* The explicit port, or the default port of a scheme that has one: http and
\* ws have 80, https and wss have 443, ftp has 21.
port_or_known_default(url) ==
    IF url.port # None THEN url.port
    ELSE IF url.scheme \in {"http", "ws"} THEN Some(80)
    ELSE IF url.scheme \in {"https", "wss"} THEN Some(443)
    ELSE IF url.scheme = "ftp" THEN Some(21)
    ELSE None

path(url) == url.path

query(url) == url.query

(***************************************************************************)
(* The Request accessors the encoder calls.  headers maps a header name to *)
(* the sequence of its values.                                             *)
(***************************************************************************)
header(req, name) ==
    IF name \in DOMAIN req.headers THEN Some(req.headers[name]) ELSE None

\* insert_header replaces the values a name had.
insert_header(req, name, value) ==
    [req EXCEPT !.headers =
        [n \in (DOMAIN req.headers) \cup {name} |->
            IF n = name THEN <<value>> ELSE req.headers[n]]]

len(req) == req.len

\* take_body leaves an empty body (of length 0) in the request.
take_body(req) == [req EXCEPT !.len = Some(0), !.body = 0]

\* Results of the io::Result / Poll kind.
Ok(n) == [kind |-> "Ok", n |-> n, err |-> ""]
Err(e) == [kind |-> "Err", n |-> 0, err |-> e]
Pending == [kind |-> "Pending", n |-> 0, err |-> ""]
NoCall == [kind |-> "None", n |-> 0, err |-> ""]

(***************************************************************************)
(* finalize_headers: Host, Proxy-Connection and the framing header.        *)
(***************************************************************************)
\* finalize_host with an absent url host read as the empty string instead of
\* failing.
finalize_host_default(req) ==
    IF is_none(header(req, HOST))
    THEN [ok |-> TRUE, err |-> "",
          request |->
            insert_header(req, HOST,
                IF is_none(host_str(req.url)) THEN <<>>
                ELSE unwrap(host_str(req.url)))]
    ELSE [ok |-> TRUE, err |-> "", request |-> req]

\* Lines 31-44: the Host header, unless the caller set one.
finalize_host(req) ==
    IF is_none(header(req, HOST))
    THEN IF is_none(host_str(req.url))
         THEN [ok |-> FALSE, err |-> "Missing hostname", request |-> req]
         ELSE LET host == unwrap(host_str(req.url))
              IN  [ok |-> TRUE, err |-> "",
                   request |->
                     IF port(req.url) # None
                     THEN insert_header(req, HOST,
                              host \o <<":">> \o to_string(unwrap(port(req.url))))
                     ELSE insert_header(req, HOST, host)]
    ELSE [ok |-> TRUE, err |-> "", request |-> req]

\* Lines 47-49: Proxy-Connection when the method is CONNECT.
finalize_proxy(req) ==
    IF req.method = CONNECT
    THEN insert_header(req, PROXY_CONNECTION, KEEP_ALIVE)
    ELSE req

\* Lines 53-57: content-length of a body of known length, else chunked.
finalize_framing(req) ==
    IF len(req) # None
    THEN insert_header(req, CONTENT_LENGTH, to_string(unwrap(len(req))))
    ELSE insert_header(req, TRANSFER_ENCODING, CHUNKED)

finalize_headers(req) ==
    LET h == finalize_host(req)
    IN  IF ~h.ok THEN h
        ELSE [ok |-> TRUE, err |-> "",
              request |-> finalize_framing(finalize_proxy(h.request))]

(***************************************************************************)
(* compute_head: the request line and the header block.                    *)
(***************************************************************************)
\* target with the url fragment appended to the origin form.
target_with_fragment(req) ==
    IF req.method = CONNECT
    THEN IF is_none(host_str(req.url))
         THEN [ok |-> FALSE, err |-> "Missing hostname", buf |-> <<>>]
         ELSE IF is_none(port_or_known_default(req.url))
         THEN [ok |-> FALSE, err |-> "Unexpected scheme with no default port",
               buf |-> <<>>]
         ELSE [ok |-> TRUE, err |-> "",
               buf |-> unwrap(host_str(req.url)) \o <<":">>
                       \o to_string(unwrap(port_or_known_default(req.url)))]
    ELSE [ok |-> TRUE, err |-> "",
          buf |-> path(req.url) \o
                  (IF query(req.url) # None
                   THEN <<"?">> \o unwrap(query(req.url)) ELSE <<>>) \o
                  (IF req.url.fragment # None
                   THEN <<"#">> \o unwrap(req.url.fragment) ELSE <<>>)]

\* target with the explicit port alone for CONNECT.
target_explicit_port(req) ==
    IF req.method = CONNECT
    THEN IF is_none(host_str(req.url))
         THEN [ok |-> FALSE, err |-> "Missing hostname", buf |-> <<>>]
         ELSE IF is_none(port(req.url))
         THEN [ok |-> FALSE, err |-> "Unexpected scheme with no default port",
               buf |-> <<>>]
         ELSE [ok |-> TRUE, err |-> "",
               buf |-> unwrap(host_str(req.url)) \o <<":">>
                       \o to_string(unwrap(port(req.url)))]
    ELSE [ok |-> TRUE, err |-> "",
          buf |-> path(req.url) \o
                  (IF query(req.url) # None
                   THEN <<"?">> \o unwrap(query(req.url)) ELSE <<>>)]

\* Lines 71-89: the request target; an error for a CONNECT url with no host
\* or no port.
target(req) ==
    IF req.method = CONNECT
    THEN IF is_none(host_str(req.url))
         THEN [ok |-> FALSE, err |-> "Missing hostname", buf |-> <<>>]
         ELSE IF is_none(port_or_known_default(req.url))
         THEN [ok |-> FALSE, err |-> "Unexpected scheme with no default port",
               buf |-> <<>>]
         ELSE [ok |-> TRUE, err |-> "",
               buf |-> unwrap(host_str(req.url)) \o <<":">>
                       \o to_string(unwrap(port_or_known_default(req.url)))]
    ELSE [ok |-> TRUE, err |-> "",
          buf |-> path(req.url) \o
                  (IF query(req.url) # None
                   THEN <<"?">> \o unwrap(query(req.url)) ELSE <<>>)]

\* Line 95: the sort key of a header name.
sort_key(h) == IF h = HOST THEN <<"0">> ELSE h

\* Lines 94-95: the orders sort_unstable_by_key may leave the headers in:
\* every order of the names with non-decreasing keys (equal keys in any order).
RECURSIVE sorted_orders(_)
sorted_orders(names) ==
    IF names = {} THEN {<<>>}
    ELSE UNION {{<<m>> \o t : t \in sorted_orders(names \ {m})} :
                m \in {x \in names :
                         \A y \in names : StrLeq(sort_key(x), sort_key(y))}}

\* Lines 97-99: one line per value of a header.
RECURSIVE header_lines(_, _)
header_lines(name, values) ==
    IF values = <<>> THEN <<>>
    ELSE name \o COLON_SP \o Head(values) \o CRLF
         \o header_lines(name, Tail(values))

\* Lines 96-100: the lines of the headers in the given order.
RECURSIVE write_headers(_, _)
write_headers(headers, order) ==
    IF order = <<>> THEN <<>>
    ELSE header_lines(Head(order), headers[Head(order)])
         \o write_headers(headers, Tail(order))

\* compute_head finalizing the headers before it renders the request line.
compute_head_finalize_first(req) ==
    LET f == finalize_headers(req)
        t == target(req)
    IN  IF ~f.ok
        THEN {[ok |-> FALSE, err |-> f.err, buf |-> <<>>, request |-> f.request]}
        ELSE IF ~t.ok
        THEN {[ok |-> FALSE, err |-> t.err, buf |-> <<>>, request |-> f.request]}
        ELSE {[ok |-> TRUE, err |-> "",
               buf |-> req.method \o <<" ">> \o t.buf \o HTTP_1_1_CRLF
                       \o write_headers(f.request.headers, order) \o CRLF,
               request |-> f.request] :
              order \in sorted_orders(DOMAIN f.request.headers)}

\* The results compute_head may return: an error, or the head buffer and the
\* request with its headers finalized.
compute_head(req) ==
    LET t == target(req)
        f == finalize_headers(req)
    IN  IF ~t.ok THEN {[ok |-> FALSE, err |-> t.err, buf |-> <<>>, request |-> req]}
        ELSE IF ~f.ok
        THEN {[ok |-> FALSE, err |-> f.err, buf |-> <<>>, request |-> f.request]}
        ELSE {[ok |-> TRUE, err |-> "",
               buf |-> req.method \o <<" ">> \o t.buf \o HTTP_1_1_CRLF
                       \o write_headers(f.request.headers, order) \o CRLF,
               request |-> f.request] :
              order \in sorted_orders(DOMAIN f.request.headers)}

(***************************************************************************)
(* The collaborators of poll_read.                                         *)
(***************************************************************************)
\* cursor_read copying all that is left of the head, whatever the buffer.
cursor_read_all(c, blen) == Len(c.buf) - c.pos

\* Cursor::poll_read on the head buffer: the number of bytes it copies into
\* a buffer of blen bytes; it never suspends and never fails.
cursor_read(c, blen) == Min(blen, Len(c.buf) - c.pos)

\* read_to_end!: the call returns the result, unless it is Ready(Ok(0)).
read_to_end_returns(r) == r # Ok(0)

\* The byte a body encoder yields (its value plays no part here).
BodyByte == "#"

RECURSIVE body_bytes(_)
body_bytes(n) == IF n = 0 THEN <<>> ELSE <<BodyByte>> \o body_bytes(n - 1)

\* BodyEncoder::new on the body taken from the request: left is the number
\* of bytes the encoder still has to yield.
BodyEncoder_new(req) == [left |-> req.body]

\* BodyEncoder::poll_read on a buffer of blen bytes: it suspends, fails,
\* yields 1..blen of the bytes left, or yields none at the end of its stream
\* or into an empty buffer.
BodyEncoder_poll_read(enc, blen) ==
    {[ret |-> Pending, encoder |-> enc], [ret |-> Err("io"), encoder |-> enc]}
    \cup {[ret |-> Ok(n), encoder |-> [left |-> enc.left - n]] :
            n \in 1..Min(blen, enc.left)}
    \cup (IF enc.left = 0 \/ blen = 0
          THEN {[ret |-> Ok(0), encoder |-> enc]} ELSE {})

(***************************************************************************)
(* poll_read.  An encoder e is a record of the fields of the Encoder and   *)
(* of what the caller has seen; poll_read(e, blen) is the set of encoders  *)
(* one call with a buffer of blen bytes may leave (the header order and    *)
(* the body encoder's answer are not determined by e).                     *)
(***************************************************************************)
\* unexpected_end testing only for a body longer than declared.
unexpected_end_overrun(written, declared) ==
    declared # None /\ written > unwrap(declared)

\* Lines 126-127: the body ended short of, or beyond, its declared length.
unexpected_end(written, declared) ==
    declared # None /\ written # unwrap(declared)

\* Line 115: Start.
start_to_head(e, r) ==
    [e EXCEPT !.state = "Head", !.request = r.request,
              !.cursor = [buf |-> r.buf, pos |-> 0],
              !.transitions = @ + 1]

\* Line 118: the bytes of the head copied out in this call.
head_return(e, n) ==
    [e EXCEPT !.cursor.pos = @ + n,
              !.out = @ \o SubSeq(e.cursor.buf, e.cursor.pos + 1, e.cursor.pos + n),
              !.result = Ok(n)]

\* head_to_body leaving the body in the request.
head_to_body_keep(e) ==
    [e EXCEPT !.state = "Body",
              !.req_len = len(e.request),
              !.encoder = BodyEncoder_new(e.request),
              !.n_written = 0,
              !.transitions = @ + 1]

\* head_to_body reading the declared length after the body is taken.
head_to_body_len_after_take(e) ==
    [e EXCEPT !.state = "Body",
              !.req_len = len(take_body(e.request)),
              !.encoder = BodyEncoder_new(e.request),
              !.request = take_body(e.request),
              !.n_written = 0,
              !.transitions = @ + 1]

\* Lines 119-120: Head to Body.
head_to_body(e) ==
    [e EXCEPT !.state = "Body",
              !.req_len = len(e.request),
              !.encoder = BodyEncoder_new(e.request),
              !.request = take_body(e.request),
              !.n_written = 0,
              !.transitions = @ + 1]

\* body_error reporting a clean end of stream instead of the error.
body_error_silent(e, f) ==
    [e EXCEPT !.encoder = f.encoder, !.framer_ret = f.ret, !.result = Ok(0)]

\* Lines 134-137: the error of a body that ended unexpectedly.
body_error(e, f) ==
    [e EXCEPT !.encoder = f.encoder, !.framer_ret = f.ret,
              !.result = Err("Unexpected end of response body")]

\* Line 140: Body to End.
body_to_end(e, f) ==
    [e EXCEPT !.state = "End", !.encoder = f.encoder, !.framer_ret = f.ret,
              !.transitions = @ + 1]

\* body_return assigning the count instead of adding it.
body_return_assign(e, f) ==
    [e EXCEPT !.encoder = f.encoder, !.framer_ret = f.ret,
              !.n_written = f.ret.n,
              !.out = @ \o body_bytes(f.ret.n),
              !.first_body = IF @ = 0 THEN Len(e.out) + 1 ELSE @,
              !.result = Ok(f.ret.n)]

\* Lines 142-145: n > 0 body bytes.
body_return(e, f) ==
    [e EXCEPT !.encoder = f.encoder, !.framer_ret = f.ret,
              !.n_written = @ + f.ret.n,
              !.out = @ \o body_bytes(f.ret.n),
              !.first_body = IF @ = 0 THEN Len(e.out) + 1 ELSE @,
              !.result = Ok(f.ret.n)]

\* body_other taking every other answer for the end of the body.
body_other_end(e, f) ==
    [e EXCEPT !.state = "End", !.encoder = f.encoder, !.framer_ret = f.ret,
              !.result = f.ret]

\* body_other turning every other answer into a suspension.
body_other_pending(e, f) ==
    [e EXCEPT !.encoder = f.encoder, !.framer_ret = f.ret, !.result = Pending]

\* Line 146: any other answer of the body encoder.
body_other(e, f) ==
    [e EXCEPT !.encoder = f.encoder, !.framer_ret = f.ret, !.result = f.ret]

\* end_return assigning the state End once more before it returns.
end_return_reassign(e) ==
    [e EXCEPT !.result = Ok(0), !.transitions = @ + 1]

\* end_return failing a read after the end.
end_return_err(e) == [e EXCEPT !.result = Err("read after end")]

\* Line 150: End.
end_return(e) == [e EXCEPT !.result = Ok(0)]

\* Lines 113-152: the loop.
RECURSIVE poll_read(_, _)
poll_read(e, blen) ==
    CASE e.state = "Start" ->
           UNION {IF r.ok
                  THEN poll_read(start_to_head(e, r), blen)
                  ELSE {[e EXCEPT !.request = r.request, !.result = Err(r.err)]} :
                  r \in compute_head(e.request)}
      [] e.state = "Head" ->
           LET n == cursor_read(e.cursor, blen)
           IN  IF read_to_end_returns(Ok(n))
               THEN {head_return(e, n)}
               ELSE poll_read(head_to_body(e), blen)
      [] e.state = "Body" ->
           UNION {IF f.ret = Ok(0)
                  THEN IF unexpected_end(e.n_written, e.req_len)
                       THEN {body_error(e, f)}
                       ELSE poll_read(body_to_end(e, f), blen)
                  ELSE IF f.ret.kind = "Ok"
                  THEN {body_return(e, f)}
                  ELSE {body_other(e, f)} :
                  f \in BodyEncoder_poll_read(e.encoder, blen)}
      [] e.state = "End" -> {end_return(e)}

(***************************************************************************)
(* The requests the encoder is built on.                                   *)
(***************************************************************************)
HostName == <<"h">>
PathP == <<"/", "p">>

Url(scheme, host, prt, q, frag) ==
    [scheme |-> scheme, host |-> host, port |-> prt, path |-> PathP,
     query |-> q, fragment |-> frag]

\* A url with no host has no port, and an http, wss or ftp url has a host.
Urls ==
    {Url(s, Some(HostName), p, q, f) :
        s \in {"http", "wss", "ftp", "foo"}, p \in {None, Some(8080)},
        q \in {None, Some(<<"q">>)}, f \in {None, Some(<<"f">>)}}
    \cup {Url("foo", None, None, q, f) :
        q \in {None, Some(<<"q">>)}, f \in {None, Some(<<"f">>)}}

Methods == {GET, CONNECT}

Lens == {None} \cup {Some(n) : n \in 0..MaxBody}

\* The headers a caller may have set: Host (no, one or two values), a framing
\* header, and one more header whose name sorts below, with or above "0".
HostValues == {<<>>, <<<<"g">>>>, <<<<"g">>, <<"k">>>>}
FramingPresets == {{}, {TRANSFER_ENCODING}, {CONTENT_LENGTH}}
ExtraPresets == {{}, {<<"-", "x">>}, {<<"0">>}, {<<"a">>}}

Headers(hostv, fr, ex) ==
    [n \in (IF hostv = <<>> THEN {} ELSE {HOST}) \cup fr \cup ex |->
        IF n = HOST THEN hostv
        ELSE IF n = TRANSFER_ENCODING THEN <<CHUNKED>>
        ELSE IF n = CONTENT_LENGTH THEN <<<<"5">>>>
        ELSE <<<<"v">>>>]

NoHeaders == Headers(<<>>, {}, {})

Request(m, u, h, l, b) ==
    [method |-> m, url |-> u, headers |-> h, len |-> l, body |-> b]

\* Spec: few requests, every body stream, every buffer length up to MaxBuf.
MachineUrls ==
    {Url("http", Some(HostName), None, None, None),
     Url("foo", Some(HostName), None, None, None),
     Url("foo", None, None, None, None)}

MachineRequests ==
    {Request(m, u, NoHeaders, l, b) :
        m \in Methods, u \in MachineUrls, l \in Lens, b \in 0..MaxBody}

\* HeadSpec: every method, url and header set, a body stream of the declared
\* length (one byte when none is declared), buffers of HeadBuf bytes.
HeadRequests ==
    {Request(m, u, Headers(hv, fr, ex), l, IF l = None THEN 1 ELSE unwrap(l)) :
        m \in Methods, u \in Urls, hv \in HostValues, fr \in FramingPresets,
        ex \in ExtraPresets, l \in Lens}

(***************************************************************************)
(* The state machine.                                                      *)
(***************************************************************************)
\* Encoder::new, lines 23-28.
new(req, sizes) ==
    /\ request = req
    /\ state = "Start"
    /\ cursor = [buf |-> <<>>, pos |-> 0]
    /\ encoder = [left |-> 0]
    /\ n_written = 0
    /\ req_len = None
    /\ bufs = sizes
    /\ out = <<>>
    /\ first_body = 0
    /\ result = NoCall
    /\ framer_ret = NoCall
    /\ transitions = 0

Init == \E req \in MachineRequests : new(req, 0..MaxBuf)

HeadInit == \E req \in HeadRequests : new(req, {HeadBuf})

\* The encoder at the start of a call.
Self ==
    [request |-> request, state |-> state, cursor |-> cursor,
     encoder |-> encoder, n_written |-> n_written, req_len |-> req_len,
     out |-> out, first_body |-> first_body, result |-> NoCall,
     framer_ret |-> NoCall, transitions |-> 0]

\* One call of poll_read with a buffer of blen bytes.
PollRead(blen) ==
    \E e \in poll_read(Self, blen) :
        /\ request' = e.request
        /\ state' = e.state
        /\ cursor' = e.cursor
        /\ encoder' = e.encoder
        /\ n_written' = e.n_written
        /\ req_len' = e.req_len
        /\ out' = e.out
        /\ first_body' = e.first_body
        /\ result' = e.result
        /\ framer_ret' = e.framer_ret
        /\ transitions' = e.transitions
        /\ UNCHANGED bufs

Next == \E blen \in bufs : PollRead(blen)

Spec == Init /\ [][Next]_vars

HeadSpec == HeadInit /\ [][Next]_vars

\* A call with a buffer that is not empty in which the body encoder, if
\* polled, does not suspend.
Progress ==
    \E blen \in bufs \ {0} : \E e \in poll_read(Self, blen) :
        /\ e.framer_ret # Pending
        /\ request' = e.request
        /\ state' = e.state
        /\ cursor' = e.cursor
        /\ encoder' = e.encoder
        /\ n_written' = e.n_written
        /\ req_len' = e.req_len
        /\ out' = e.out
        /\ first_body' = e.first_body
        /\ result' = e.result
        /\ framer_ret' = e.framer_ret
        /\ transitions' = e.transitions
        /\ UNCHANGED bufs

\* Spec with a caller that keeps calling with buffers that are not empty and
\* a body encoder that does not suspend for ever.
LiveSpec == Init /\ [][Next]_vars /\ WF_vars(Progress)

(***************************************************************************)
(* What the caller has seen.                                               *)
(***************************************************************************)
\* The head bytes and the number of body bytes among the bytes written.
HeadDelivered == IF first_body = 0 THEN out ELSE SubSeq(out, 1, first_body - 1)

BodyDelivered == IF first_body = 0 THEN 0 ELSE Len(out) - first_body + 1

ProtocolError == Err("Unexpected end of response body")

\* The lines of a head: the byte strings its CRLFs end.
CrLfAt(s) == {k \in 1..(Len(s) - 1) : s[k] = "\r" /\ s[k + 1] = "\n"}

RECURSIVE split_lines(_, _)
split_lines(s, cur) ==
    IF CrLfAt(s) = {}
    THEN (IF cur \o s = <<>> THEN <<>> ELSE <<cur \o s>>)
    ELSE LET k == CHOOSE i \in CrLfAt(s) : \A j \in CrLfAt(s) : i <= j
         IN  <<cur \o SubSeq(s, 1, k - 1)>>
             \o split_lines(SubSeq(s, k + 2, Len(s)), <<>>)

StartsWith(s, prefix) ==
    Len(s) >= Len(prefix) /\ SubSeq(s, 1, Len(prefix)) = prefix

IsHostLine(l) == StartsWith(l, HOST \o COLON_SP)

HasChunked(headers) ==
    /\ TRANSFER_ENCODING \in DOMAIN headers
    /\ \E i \in 1..Len(headers[TRANSFER_ENCODING]) :
           headers[TRANSFER_ENCODING][i] = CHUNKED

(***************************************************************************)
(* The claims.                                                             *)
(***************************************************************************)
\* C1: no body byte is returned before the whole head has been: when the
\* first body byte is delivered, the bytes delivered before it are the
\* rendered head.
C1_NoBodyBeforeHead ==
    first_body # 0 => SubSeq(out, 1, first_body - 1) = cursor.buf

\* C2: with a declared length L the encoder reaches End only when
\* bytes-written = L, which is then the number of body bytes delivered; and a
\* body encoder that ends its stream at another count gets the
\* protocol-violation error, the state staying Body.
C2_KnownLength ==
    /\ (state = "End" /\ req_len # None) =>
           (n_written = unwrap(req_len) /\ BodyDelivered = unwrap(req_len))
    /\ (state = "Body" /\ framer_ret = Ok(0)) =>
           (result = ProtocolError /\ req_len # None
            /\ BodyDelivered # unwrap(req_len))

C2_Witness ==
    state = "End" /\ req_len = Some(MaxBody) /\ BodyDelivered = MaxBody

\* C3: in End every poll_read call, whatever the buffer, returns Ready(Ok(0)),
\* writes nothing and leaves the state End.
C3_EndIdempotent ==
    state = "End" =>
        /\ result = Ok(0)
        /\ \A blen \in bufs : \A e \in poll_read(Self, blen) :
               e.state = "End" /\ e.result = Ok(0) /\ e.out = out

C3_Witness ==
    state = "End" /\ result = Ok(0) /\ BodyDelivered > 0 /\ transitions = 0

\* C4: whatever the buffer lengths, the bytes returned before the encoder
\* enters Body are the rendered head, byte for byte.
C4_HeadDelivered ==
    state \in {"Body", "End"} => HeadDelivered = cursor.buf

\* C5: the finalized header set holds exactly one of content-length and
\* transfer-encoding: chunked.
C5_ExactlyOneFraming ==
    state # "Start" =>
        ((CONTENT_LENGTH \in DOMAIN request.headers)
            # HasChunked(request.headers))

\* C6: in the rendered head the Host header is the first line after the
\* request line, and the only Host line.
C6_HostFirstOnce ==
    state # "Start" =>
        LET ls == split_lines(cursor.buf, <<>>)
        IN  /\ IsHostLine(ls[2])
            /\ Cardinality({i \in 1..Len(ls) : IsHostLine(ls[i])}) = 1

\* C7, as claimed: a url with no host makes every poll_read call fail with
\* the missing-hostname error, no byte written, whatever the method and the
\* headers.
C7_NoHostAlwaysFails ==
    (is_none(host_str(request.url)) /\ result # NoCall) =>
        (result = Err("Missing hostname") /\ out = <<>>)

\* C7, amended: a url with no host makes every poll_read call fail with the
\* missing-hostname error, no byte written and the state left at Start, when
\* the method is CONNECT or the caller set no Host header.
C7_NoHostFails ==
    (/\ is_none(host_str(request.url))
     /\ request.method = CONNECT \/ HOST \notin DOMAIN request.headers) =>
        /\ state = "Start" /\ out = <<>>
        /\ result \in {NoCall, Err("Missing hostname")}
        /\ \A blen \in bufs : \A e \in poll_read(Self, blen) :
               /\ e.result = Err("Missing hostname")
               /\ e.state = "Start" /\ e.out = <<>>

C7_Witness ==
    /\ is_none(host_str(request.url))
    /\ request.method = GET
    /\ HOST \notin DOMAIN request.headers
    /\ result = Err("Missing hostname")

\* C8: a call returns Ready(Ok(0)) only when it leaves the state End.
C8_ZeroOnlyAtEnd == result = Ok(0) => state = "End"

C8_Witness ==
    /\ result = Ok(0) /\ state = "End" /\ framer_ret = Ok(0)
    /\ HeadDelivered = cursor.buf /\ BodyDelivered > 0

\* C9: a call returns Pending only when it polled the body encoder in Body
\* and the body encoder returned Pending.
C9_PendingOnlyFromBody ==
    result = Pending => (state = "Body" /\ framer_ret = Pending)

C9_Witness == result = Pending /\ state = "Body" /\ n_written > 0

\* C10: once a call has returned the protocol-violation error, the next
\* call returns neither body bytes nor a clean end of stream, and the state
\* does not become End.
C10_ErrorTerminal ==
    [][result = ProtocolError => (result'.kind # "Ok" /\ state' # "End")]_vars

\* The place of a state in the order Start, Head, Body, End.
Rank(st) ==
    CASE st = "Start" -> 1 [] st = "Head" -> 2 [] st = "Body" -> 3
      [] st = "End" -> 4

\* The first line of the rendered head.
RequestLine == split_lines(cursor.buf, <<>>)[1]

NoPortError == Err("Unexpected scheme with no default port")

\* The decimal numerals of the lengths and ports of the model.
Numeral(n) ==
    CASE n = 0 -> <<"0">> [] n = 1 -> <<"1">> [] n = 2 -> <<"2">>
      [] n = 3 -> <<"3">> [] n = 4 -> <<"4">> [] n = 21 -> <<"2", "1">>
      [] n = 80 -> <<"8", "0">> [] n = 443 -> <<"4", "4", "3">>
      [] n = 8080 -> <<"8", "0", "8", "0">>

\* The schemes of the model that have a default port, and that port.
KnownSchemes == {"http", "wss", "ftp"}

SchemePort(scheme) ==
    CASE scheme = "http" -> 80 [] scheme = "wss" -> 443 [] scheme = "ftp" -> 21

\* C11: for CONNECT on a url with a host the request line is
\* CONNECT host:port HTTP/1.1 with the explicit port or else the default
\* port of the scheme; with neither, every call fails with the data error
\* and no byte is written.
C11_ConnectTarget ==
    (request.method = CONNECT /\ request.url.host # None) =>
        IF request.url.port = None /\ request.url.scheme \notin KnownSchemes
        THEN /\ state = "Start" /\ out = <<>>
             /\ result \in {NoCall, NoPortError}
             /\ \A blen \in bufs : \A e \in poll_read(Self, blen) :
                    e.result = NoPortError /\ e.state = "Start" /\ e.out = <<>>
        ELSE /\ state = "Start" =>
                    \A blen \in bufs : \A e \in poll_read(Self, blen) :
                        e.state # "Start" /\ e.result.kind = "Ok"
             /\ state # "Start" =>
                    RequestLine =
                        <<"C", "O", "N", "N", "E", "C", "T", " ">>
                        \o unwrap(request.url.host) \o <<":">>
                        \o Numeral(IF request.url.port # None
                                   THEN unwrap(request.url.port)
                                   ELSE SchemePort(request.url.scheme))
                        \o <<" ", "H", "T", "T", "P", "/", "1", ".", "1">>

C11_Witness ==
    /\ request.method = CONNECT /\ request.url.port = None
    /\ request.url.scheme = "wss" /\ state = "Head" /\ out # <<>>

\* C12: for a method other than CONNECT the request line is the method, the
\* path, ?query when the url has a query, and HTTP/1.1; the fragment is not
\* in it.
C12_OriginTarget ==
    (request.method # CONNECT /\ state # "Start") =>
        LET line == RequestLine
        IN  /\ line =
                   <<"G", "E", "T", " ", "/", "p">>
                   \o (IF request.url.query # None THEN <<"?", "q">> ELSE <<>>)
                   \o <<" ", "H", "T", "T", "P", "/", "1", ".", "1">>
            /\ \A i \in 1..Len(line) : line[i] # "#"

C12_Witness ==
    /\ request.method = GET /\ request.url.query # None
    /\ request.url.fragment # None /\ state = "Head" /\ out # <<>>

\* C13: in Head the cursor is at most the length of the head buffer, and
\* the encoder has left Head only with the cursor at that length.
C13_CursorInvariant ==
    /\ state = "Head" => cursor.pos <= Len(cursor.buf)
    /\ state \in {"Body", "End"} => cursor.pos = Len(cursor.buf)

\* C14: the state never moves back in the order Start, Head, Body, End; the
\* head buffer and the headers change only in the call that leaves Start;
\* the body is taken in the call that enters Body, and in no other.
C14_ForwardOnly ==
    [][/\ Rank(state) <= Rank(state')
       /\ (cursor'.buf # cursor.buf \/ request'.headers # request.headers)
              => (state = "Start" /\ state' # "Start")
       /\ (Rank(state) <= 2 /\ Rank(state') >= 3)
              => /\ request'.body = 0 /\ request'.len = Some(0)
                 /\ req_len' = request.len
                 /\ encoder'.left + n_written' = request.body
       /\ ~(Rank(state) <= 2 /\ Rank(state') >= 3)
              => (request'.body = request.body /\ request'.len = request.len)
      ]_vars

C14_Witness ==
    /\ state = "End" /\ req_len = Some(MaxBody)
    /\ request.len = Some(0) /\ request.body = 0 /\ BodyDelivered = MaxBody

\* C15: a call that returns n > 0 bytes wrote n bytes, at most the length of
\* the buffer, all of the head (the cursor moved by n, the body encoder was
\* not polled) or all from one poll of the body encoder (which yielded n).
C15_OnePhasePerCall ==
    \A blen \in bufs : \A e \in poll_read(Self, blen) :
        (e.result.kind = "Ok" /\ e.result.n > 0) =>
            /\ e.result.n <= blen
            /\ Len(e.out) = Len(out) + e.result.n
            /\ \/ /\ e.state = "Head" /\ e.framer_ret = NoCall
                  /\ e.cursor.pos = (IF state = "Start" THEN 0 ELSE cursor.pos)
                                        + e.result.n
                  /\ e.first_body = 0 /\ e.n_written = 0
               \/ /\ e.state = "Body" /\ e.framer_ret = Ok(e.result.n)
                  /\ state # "Start" /\ e.cursor = cursor
                  /\ e.first_body =
                         (IF first_body = 0 THEN Len(out) + 1 ELSE first_body)
                  /\ e.encoder.left + e.result.n =
                         (IF state = "Body" THEN encoder.left ELSE request.body)

C15_Witness ==
    state = "Body" /\ result = Ok(MaxBody) /\ framer_ret = Ok(MaxBody)

\* C16: bytes-written is the number of body bytes returned so far; no call
\* decreases it, and a call that returns n body bytes adds n to it.
C16_BytesWritten ==
    /\ n_written = BodyDelivered
    /\ \A blen \in bufs : \A e \in poll_read(Self, blen) :
           /\ e.n_written >= n_written
           /\ e.n_written - n_written =
                  (IF e.state = "Head" THEN 0 ELSE Len(e.out) - Len(out))

C16_Witness == state = "Body" /\ n_written = MaxBody /\ result.n < MaxBody

\* C17: a call that fails in Start leaves the state Start and the request as
\* it was, no byte written; every later call returns the same error.
C17_HeadErrorTerminal ==
    /\ \A blen \in bufs : \A e \in poll_read(Self, blen) :
           (state = "Start" /\ e.result.kind = "Err") =>
               /\ e.state = "Start" /\ e.request = request /\ e.out = <<>>
               /\ e.result \in {Err("Missing hostname"), NoPortError}
               /\ (result = NoCall \/ e.result = result)
    /\ (state = "Start" /\ result # NoCall) =>
           (result.kind = "Err" /\ out = <<>>)

C17_Witness == state = "Start" /\ result = NoPortError /\ transitions = 0

\* C18: when the body encoder suspends or fails, the call returns that
\* answer, writes nothing and leaves the state Body, the body encoder and
\* bytes-written as they were.
C18_PassThrough ==
    /\ framer_ret.kind \in {"Pending", "Err"} =>
           (result = framer_ret /\ state = "Body")
    /\ state = "Body" =>
           \A blen \in bufs : \A e \in poll_read(Self, blen) :
               e.framer_ret.kind \in {"Pending", "Err"} =>
                   /\ e.result = e.framer_ret /\ e.out = out
                   /\ e.state = "Body" /\ e.encoder = encoder
                   /\ e.n_written = n_written /\ e.req_len = req_len

C18_Witness ==
    state = "Body" /\ result = Err("io") /\ n_written > 0 /\ encoder.left > 0

\* C19: the call that leaves Start inserts content-length, with the decimal
\* declared length, when the body has one, and transfer-encoding: chunked
\* when it has none, and touches no other framing header; the expected length
\* stored on entering Body is that declared length; neither changes later.
C19_FramingDecision ==
    [][/\ (state = "Start" /\ state' # "Start") =>
              LET l == request.len
                  h == request.headers
                  k == request'.headers
              IN  IF l # None
                  THEN /\ k[CONTENT_LENGTH] = <<Numeral(unwrap(l))>>
                       /\ (TRANSFER_ENCODING \in DOMAIN k)
                              = (TRANSFER_ENCODING \in DOMAIN h)
                  ELSE /\ k[TRANSFER_ENCODING] = <<CHUNKED>>
                       /\ (CONTENT_LENGTH \in DOMAIN k)
                              = (CONTENT_LENGTH \in DOMAIN h)
                       /\ CONTENT_LENGTH \in DOMAIN h
                              => k[CONTENT_LENGTH] = h[CONTENT_LENGTH]
       /\ state # "Start" => request'.headers = request.headers
       /\ state = "Head" =>
              IF request.len # None
              THEN request.headers[CONTENT_LENGTH]
                       = <<Numeral(unwrap(request.len))>>
              ELSE request.headers[TRANSFER_ENCODING] = <<CHUNKED>>
       /\ (state = "Head" /\ state' # "Head") => req_len' = request.len
       /\ state \in {"Body", "End"} => req_len' = req_len
      ]_vars

C19_Witness ==
    /\ state = "Body" /\ req_len = Some(MaxBody) /\ n_written > 0
    /\ request.headers[CONTENT_LENGTH] = <<Numeral(MaxBody)>>

\* C20: no call makes more than three state transitions; and, the caller
\* calling on with buffers that are not empty and the body encoder not
\* suspending for ever, the encoder reaches End or a call returns an error.
C20_Terminates ==
    /\ [](transitions <= 3)
    /\ <>(state = "End" \/ result.kind = "Err")

C20_Witness == state = "End" /\ transitions = 3

====
